---- MODULE Spec2Model ----
(***************************************************************************)
(* Model of carla_spawn_objects.py: CarlaSpawnObjects.spawn_objects,       *)
(* setup_vehicles, setup_sensors, destroy and the main()/run() driver.     *)
(* The three ROS services (spawn_object, destroy_object, get_actor) are    *)
(* the environment: every call is one step whose answer is drawn from the  *)
(* answers the service can give.                                           *)
(***************************************************************************)
EXTENDS Integers, Sequences, FiniteSets, TLC

VARIABLES
    objects,            \* json_actors["objects"] of the definition file
    spawn_sensors_only, \* self.spawn_sensors_only
    params,             \* ROS parameters ~spawn_point_<id> that are set
    pc,                 \* position of the main thread
    spawn_result,       \* "pending", "returned" or "raised" (spawn_objects)
    error,              \* what made spawn_objects raise, "none" otherwise
    global_sensors,     \* self.global_sensors
    vehicles_sensors,   \* self.vehicles_sensors
    players,            \* self.players
    l_global_sensors,   \* local global_sensors of spawn_objects
    l_vehicles,         \* local vehicles of spawn_objects
    l_players,          \* local players of setup_vehicles
    v_idx,              \* position of the for loops over vehicles
    s_sensors,          \* setup_sensors: parameter sensors
    s_attach,           \* setup_sensors: parameter attached_vehicle_id
    s_idx,              \* setup_sensors: position of the for loop
    s_actors,           \* setup_sensors: local actors
    s_names,            \* setup_sensors: local sensor_names
    s_name,             \* setup_sensors: local sensor_name (Unbound at first)
    s_start,            \* length of spawnLog when setup_sensors was entered
    spawnLog,           \* every call of spawn_object_service, with its answer
    lookupLog,          \* every call of get_actor_service, with its answer
    destroyLog,         \* per destroy() call, the ids it sent to destroy_object
    destroyFailed,      \* ids whose destroy_object call raised ServiceException
    nextId,             \* next actor id the backend hands out
    faults              \* anomalous service answers so far

vars == <<objects, spawn_sensors_only, params, pc, spawn_result, error,
          global_sensors, vehicles_sensors, players, l_global_sensors,
          l_vehicles, l_players, v_idx, s_sensors, s_attach, s_idx, s_actors,
          s_names, s_name, s_start, spawnLog, lookupLog, destroyLog,
          destroyFailed, nextId, faults>>

(***************************************************************************)
(* Bounds of the model.                                                    *)
(***************************************************************************)
MaxObjects == 2     \* entries in the definition file
MaxFaults == 2      \* anomalous service answers in one run

(***************************************************************************)
(* Values of the program.                                                  *)
(***************************************************************************)
Sentinel == -1          \* response.id of a rejected spawn
Unattached == 0         \* default attached_vehicle_id
Unbound == <<>>         \* sensor_name before its first assignment

RangeOf(s) == {s[i] : i \in DOMAIN s}

RECURSIVE Flatten(_)
Flatten(ss) == IF ss = <<>> THEN <<>> ELSE Head(ss) \o Flatten(Tail(ss))

(***************************************************************************)
(* Poses.  math.radians + quaternion_from_euler (static xyz axes) for the  *)
(* angles whose half angle has an integer sine and cosine.                 *)
(***************************************************************************)
Angles == {0, 180}
CosHalf(deg) == IF deg = 0 THEN 1 ELSE 0
SinHalf(deg) == IF deg = 0 THEN 0 ELSE 1

create_spawn_point(x, y, z, roll, pitch, yaw) ==
    LET ci == CosHalf(roll)   si == SinHalf(roll)
        cj == CosHalf(pitch)  sj == SinHalf(pitch)
        ck == CosHalf(yaw)    sk == SinHalf(yaw)
        cc == ci * ck         cs == ci * sk
        sc == si * ck         ss == si * sk
    IN  [x |-> x, y |-> y, z |-> z,
         qx |-> cj * sc - sj * cs,
         qy |-> cj * ss + sj * cc,
         qz |-> cj * cs - sj * sc,
         qw |-> cj * cc + sj * ss]

\* Pose(): geometry_msgs default, every field zero
EmptyPose == [x |-> 0, y |-> 0, z |-> 0, qx |-> 0, qy |-> 0, qz |-> 0, qw |-> 0]

Get(d, k, default) == IF k \in DOMAIN d THEN d[k] ELSE default

(***************************************************************************)
(* check_spawn_point_param.  A parameter string is a sequence of           *)
(* characters; float() accepts the digit strings and raises ValueError on  *)
(* anything else of the alphabet used here.                                *)
(***************************************************************************)
Digits == {"0", "1", "2", "3", "8"}
DigitVal(c) == CASE c = "0" -> 0 [] c = "1" -> 1 [] c = "2" -> 2
                 [] c = "3" -> 3 [] c = "8" -> 8

RECURSIVE Split(_, _)
\* str.split(sep): the fields between the separators, empty ones included
Split(s, sep) ==
    IF \A i \in DOMAIN s : s[i] # sep THEN <<s>>
    ELSE LET k == CHOOSE i \in DOMAIN s :
                      s[i] = sep /\ \A j \in 1..(i - 1) : s[j] # sep
         IN  <<SubSeq(s, 1, k - 1)>> \o Split(SubSeq(s, k + 1, Len(s)), sep)

IsFloat(s) == s # <<>> /\ \A i \in DOMAIN s : s[i] \in Digits

RECURSIVE FloatOf(_)
FloatOf(s) == IF s = <<>> THEN 0
              ELSE 10 * FloatOf(SubSeq(s, 1, Len(s) - 1)) + DigitVal(s[Len(s)])

\* [ok |-> FALSE] stands for the ValueError
check_spawn_point_param(spawn_point_parameter) ==
    LET components == Split(spawn_point_parameter, ",")
    IN  IF Len(components) # 6 THEN [ok |-> FALSE]
        ELSE IF \E i \in 1..6 : ~IsFloat(components[i]) THEN [ok |-> FALSE]
        ELSE [ok |-> TRUE,
              pose |-> create_spawn_point(
                  FloatOf(components[1]), FloatOf(components[2]),
                  FloatOf(components[3]), FloatOf(components[4]),
                  FloatOf(components[5]), FloatOf(components[6]))]

(***************************************************************************)
(* The definition file: object types are kept as their '.'-separated       *)
(* fields, so that type.split('.')[0] is the first field.                  *)
(***************************************************************************)
CameraType == <<"sensor", "camera", "rgb">>
ActorListType == <<"sensor", "pseudo", "actor_list">>
VehicleType == <<"vehicle", "tesla", "model3">>
WalkerType == <<"walker", "pedestrian", "0001">>
PropType == <<"static", "prop", "cone">>

SpFull == [x |-> 1, y |-> 2, z |-> 3, roll |-> 0, pitch |-> 0, yaw |-> 180]

\* sensors as they appear in a vehicle's "sensors" list
S_cam == [type |-> CameraType, id |-> "front", fov |-> "90"]
S_lidar == [type |-> <<"sensor", "lidar", "ray_cast">>, id |-> "lidar",
            spawn_point |-> [z |-> 2]]
S_notype == [id |-> "front"]
S_noid == [type |-> CameraType]

\* top-level entries
G_cam == [type |-> CameraType, id |-> "front", spawn_point |-> SpFull,
          fov |-> "90"]
G_nosp == [type |-> CameraType, id |-> "rear"]
G_noid == [type |-> CameraType, spawn_point |-> SpFull]
G_actor_list == [type |-> ActorListType, id |-> "actor_list"]
O_prop == [type |-> PropType, id |-> "cone"]
V_plain == [type |-> VehicleType, id |-> "ego_vehicle"]
V_sensors == [type |-> VehicleType, id |-> "ego_vehicle",
              spawn_point |-> SpFull, sensors |-> <<S_cam, S_lidar>>]
V_dup == [type |-> VehicleType, id |-> "hero",
          sensors |-> <<S_cam, S_cam, S_noid>>]
W_notype == [type |-> WalkerType, id |-> "walker",
             sensors |-> <<S_notype, S_cam>>]

Catalogue == {G_cam, G_nosp, G_noid, G_actor_list, O_prop,
              V_plain, V_sensors, V_dup, W_notype}

\* definition files with a global sensor and two entities
Scenarios == {<<G_cam, V_sensors, V_dup>>,
              <<G_actor_list, V_sensors, V_dup>>,
              <<G_cam, V_plain, W_notype>>}

SeqsUpTo(S, n) == UNION {[1..k -> S] : k \in 0..n}

\* "1,2,3,0,0,180"
ParamValid == <<"1", ",", "2", ",", "3", ",", "0", ",", "0", ",", "1", "8", "0">>
\* "1,2,3,0,0"
ParamShort == <<"1", ",", "2", ",", "3", ",", "0", ",", "0">>

NoParams == <<>>
ParamSets == {NoParams,
              [k \in {"ego_vehicle"} |-> ParamValid],
              [k \in {"ego_vehicle"} |-> ParamShort]}

(***************************************************************************)
(* Inputs that exercise the spawn point of an entity and the sensor        *)
(* batches: one entity with each shape of spawn_point and of               *)
(* ~spawn_point_<id>, and files whose batches repeat names or lack poses.  *)
(***************************************************************************)
SpXyz == [x |-> 1, y |-> 2, z |-> 3]
SpNoZ == [x |-> 1, y |-> 2, roll |-> 0, pitch |-> 0, yaw |-> 180]
SpNoYaw == [x |-> 1, y |-> 2, z |-> 3, roll |-> 0, pitch |-> 0]

V_at(sp) == [type |-> VehicleType, id |-> "ego_vehicle", spawn_point |-> sp]
W_hero == [type |-> WalkerType, id |-> "hero", spawn_point |-> SpFull]
V_trio == [type |-> VehicleType, id |-> "ego_vehicle",
           sensors |-> <<S_cam, S_cam, S_lidar>>]

\* "3,2,1,0,0,0"
ParamOther == <<"3", ",", "2", ",", "1", ",", "0", ",", "0", ",", "0">>
\* "1,2,3,0,0,0,0"
ParamLong == <<"1", ",", "2", ",", "3", ",", "0", ",", "0", ",", "0", ",", "0">>
\* "1,2,x,0,0,0"
ParamBad == <<"1", ",", "2", ",", "x", ",", "0", ",", "0", ",", "0">>
\* "1,2,,0,0,0"
ParamEmptyField == <<"1", ",", "2", ",", ",", "0", ",", "0", ",", "0">>

ResolverVehicles == {V_plain} \cup {V_at(sp) : sp \in {SpFull, SpXyz, SpNoZ, SpNoYaw}}

ResolverParams ==
    {NoParams} \cup
    {[k \in {"ego_vehicle"} |-> p] :
        p \in {ParamValid, ParamOther, ParamShort, ParamLong, ParamBad,
               ParamEmptyField}}

SensorFiles == {<<G_nosp>>, <<G_nosp, G_cam>>, <<G_cam, G_cam, G_actor_list>>,
                <<V_trio>>, <<G_cam, V_trio>>, <<G_cam, V_sensors>>,
                <<V_sensors, V_dup>>,
                <<G_actor_list, V_sensors>>, <<G_actor_list, V_trio, V_dup>>,
                <<G_noid, G_cam>>, <<S_lidar, G_cam>>}

InputCases ==
    {<<(<<v>>), ps>> : v \in ResolverVehicles, ps \in ResolverParams}
    \cup {<<(<<V_at(SpFull), W_hero>>), ps>> : ps \in ResolverParams}
    \cup {<<f, NoParams>> : f \in SensorFiles}

\* id that get_actor answers for the role name of an actor that exists
ExistingActor(role) == CASE role = "ego_vehicle" -> 7
                         [] role = "hero" -> 8
                         [] OTHER -> 9

(***************************************************************************)
(* spawn_objects: classification of the entries (lines 79-97).             *)
(***************************************************************************)
actor_type(actor) == Head(actor.type)

IsActorListEntry(actor, sensors_only) ==
    actor.type = ActorListType /\ sensors_only

\* mutant: the actor list sensor is a global sensor in sensors-only mode only
IsGlobalSensor_ActorListBySensorsOnly(actor, sensors_only) ==
    \/ IsActorListEntry(actor, sensors_only)
    \/ actor_type(actor) = "sensor" /\ actor.type # ActorListType

IsGlobalSensor(actor, sensors_only) ==
    IsActorListEntry(actor, sensors_only) \/ actor_type(actor) = "sensor"

IsVehicle(actor, sensors_only) ==
    /\ ~IsGlobalSensor(actor, sensors_only)
    /\ actor_type(actor) \in {"vehicle", "walker"}

ClassifyGlobalSensors(objs, sensors_only) ==
    SelectSeq(objs, LAMBDA a : IsGlobalSensor(a, sensors_only))

ClassifyVehicles(objs, sensors_only) ==
    SelectSeq(objs, LAMBDA a : IsVehicle(a, sensors_only))

found_sensor_actor_list(objs, sensors_only) ==
    \E i \in DOMAIN objs : IsActorListEntry(objs[i], sensors_only)

\* mutant: the check of line 95 is missing
ValidationFails_Never(sensors_only, found) == FALSE

\* the check of line 95
ValidationFails(sensors_only, found) == sensors_only /\ ~found

(***************************************************************************)
(* setup_sensors: what one pass of the loop does before the service call   *)
(* (lines 202-245).  exc is the exception raised inside the try block,     *)
(* named tells whether sensor_name was assigned by this pass.              *)
(***************************************************************************)
HasPseudo(sensor_type) == \E i \in DOMAIN sensor_type : sensor_type[i] = "pseudo"

SensorName(sensor_type, sensor_id) == <<sensor_type, sensor_id>>

SensorAttributes(sensor_spec) ==
    [k \in DOMAIN sensor_spec \ {"type", "id", "spawn_point"} |-> sensor_spec[k]]

SensorRequest(sensor_spec, attached_vehicle_id, sensor_transform) ==
    [type |-> sensor_spec.type, id |-> sensor_spec.id,
     attach_to |-> attached_vehicle_id, transform |-> sensor_transform,
     random_pose |-> FALSE, attributes |-> SensorAttributes(sensor_spec)]

\* mutant: the name check of line 207 is missing
NameUsed_Never(sensor_name, sensor_names) == FALSE

\* line 207
NameUsed(sensor_name, sensor_names) == sensor_name \in RangeOf(sensor_names)

\* mutant: every sensor may take the default pose
SpawnPointMandatory_Never(attached_vehicle_id, sensor_type) == FALSE

\* line 213
SpawnPointMandatory(attached_vehicle_id, sensor_type) ==
    attached_vehicle_id = Unattached /\ ~HasPseudo(sensor_type)

PrepareSensor(sensor_spec, attached_vehicle_id, sensor_names) ==
    IF "type" \notin DOMAIN sensor_spec \/ "id" \notin DOMAIN sensor_spec
    THEN [exc |-> "KeyError", named |-> FALSE]
    ELSE
    LET sensor_name == SensorName(sensor_spec.type, sensor_spec.id)
        failed == [exc |-> "KeyError", named |-> TRUE, name |-> sensor_name]
    IN
    IF NameUsed(sensor_name, sensor_names)
    THEN \* building the NameError message reads the popped 'id': KeyError
         failed @@ [names |-> sensor_names]
    ELSE
    LET names == Append(sensor_names, sensor_name)
        ready(transform) ==
            [exc |-> "none", named |-> TRUE, name |-> sensor_name,
             names |-> names,
             request |-> SensorRequest(sensor_spec, attached_vehicle_id, transform)]
    IN
    IF SpawnPointMandatory(attached_vehicle_id, sensor_spec.type)
    THEN IF "spawn_point" \notin DOMAIN sensor_spec
         THEN failed @@ [names |-> names]
         ELSE LET spawn_point == sensor_spec.spawn_point
              IN  IF {"x", "y", "z"} \subseteq DOMAIN spawn_point
                  THEN ready(create_spawn_point(
                           spawn_point.x, spawn_point.y, spawn_point.z,
                           Get(spawn_point, "roll", 0),
                           Get(spawn_point, "pitch", 0),
                           Get(spawn_point, "yaw", 0)))
                  ELSE failed @@ [names |-> names]
    ELSE IF "spawn_point" \notin DOMAIN sensor_spec
         THEN ready(create_spawn_point(0, 0, 0, 0, 0, 0))
         ELSE LET spawn_point == sensor_spec.spawn_point
              IN  ready(create_spawn_point(
                      Get(spawn_point, "x", 0), Get(spawn_point, "y", 0),
                      Get(spawn_point, "z", 0), Get(spawn_point, "roll", 0),
                      Get(spawn_point, "pitch", 0), Get(spawn_point, "yaw", 0)))

\* mutant: no handler for Exception, the rejection leaves setup_sensors
HandlerPropagates_NoCatchAll(exc, sensor_name) ==
    sensor_name = Unbound \/ exc = "Exception"

\* The two handlers (lines 251-259) log sensor_name and continue; reading an
\* unassigned sensor_name raises UnboundLocalError out of setup_sensors.
HandlerPropagates(exc, sensor_name) == sensor_name = Unbound

(***************************************************************************)
(* setup_vehicles: the spawn point of an entity (lines 137-172).           *)
(***************************************************************************)
\* mutant: the spawn point of the file is preferred to the parameter
ResolveSpawnPoint_ConfigFirst(vehicle, parameters) ==
    LET from_param ==
            IF vehicle.id \in DOMAIN parameters
            THEN check_spawn_point_param(parameters[vehicle.id])
            ELSE [ok |-> FALSE]
        config_ok ==
            /\ "spawn_point" \in DOMAIN vehicle
            /\ {"x", "y", "z", "roll", "pitch", "yaw"}
                   \subseteq DOMAIN vehicle.spawn_point
    IN  IF config_ok
        THEN [random_pose |-> FALSE,
              transform |-> create_spawn_point(
                  vehicle.spawn_point.x, vehicle.spawn_point.y,
                  vehicle.spawn_point.z, vehicle.spawn_point.roll,
                  vehicle.spawn_point.pitch, vehicle.spawn_point.yaw)]
        ELSE IF from_param.ok
        THEN [random_pose |-> FALSE, transform |-> from_param.pose]
        ELSE [random_pose |-> TRUE, transform |-> EmptyPose]

\* mutant: roll, pitch and yaw of the file default to 0.0, as for a sensor
ResolveSpawnPoint_DefaultAngles(vehicle, parameters) ==
    LET from_param ==
            IF vehicle.id \in DOMAIN parameters
            THEN check_spawn_point_param(parameters[vehicle.id])
            ELSE [ok |-> FALSE]
        config_ok ==
            /\ "spawn_point" \in DOMAIN vehicle
            /\ {"x", "y", "z"} \subseteq DOMAIN vehicle.spawn_point
    IN  IF from_param.ok
        THEN [random_pose |-> FALSE, transform |-> from_param.pose]
        ELSE IF config_ok
        THEN [random_pose |-> FALSE,
              transform |-> create_spawn_point(
                  vehicle.spawn_point.x, vehicle.spawn_point.y,
                  vehicle.spawn_point.z, Get(vehicle.spawn_point, "roll", 0),
                  Get(vehicle.spawn_point, "pitch", 0),
                  Get(vehicle.spawn_point, "yaw", 0))]
        ELSE [random_pose |-> TRUE, transform |-> EmptyPose]

ResolveSpawnPoint(vehicle, parameters) ==
    LET from_param ==
            IF vehicle.id \in DOMAIN parameters
            THEN check_spawn_point_param(parameters[vehicle.id])
            ELSE [ok |-> FALSE]
        spawn_param_used == from_param.ok
        config_ok ==
            /\ "spawn_point" \in DOMAIN vehicle
            /\ {"x", "y", "z", "roll", "pitch", "yaw"}
                   \subseteq DOMAIN vehicle.spawn_point
    IN  IF spawn_param_used
        THEN [random_pose |-> FALSE, transform |-> from_param.pose]
        ELSE IF config_ok
        THEN [random_pose |-> FALSE,
              transform |-> create_spawn_point(
                  vehicle.spawn_point.x, vehicle.spawn_point.y,
                  vehicle.spawn_point.z, vehicle.spawn_point.roll,
                  vehicle.spawn_point.pitch, vehicle.spawn_point.yaw)]
        ELSE [random_pose |-> TRUE, transform |-> EmptyPose]

VehicleRequest(vehicle, parameters) ==
    LET spawn_point == ResolveSpawnPoint(vehicle, parameters)
    IN  [type |-> vehicle.type, id |-> vehicle.id, attach_to |-> 0,
         transform |-> spawn_point.transform,
         random_pose |-> spawn_point.random_pose, attributes |-> <<>>]

\* mutant: any response ends the retry loop
PlayerSpawned_Always(response_id) == TRUE

\* mutant: setup_sensors is called without the id of the vehicle
AttachedId_Default(vehicle) == Unattached

\* lines 119 and 126: the id the sensors of a spawned vehicle attach to
AttachedId(vehicle) == vehicle.carla_id

\* the loop condition of line 175, as decided at line 178
PlayerSpawned(response_id) == response_id # Sentinel

(***************************************************************************)
(* destroy (lines 294-324).                                                *)
(***************************************************************************)
\* mutant: the players are destroyed before the sensors
DestroyOrder_PlayersFirst(gs, vs, ps) == ps \o Flatten(vs) \o gs

DestroyOrder(gs, vs, ps) == gs \o Flatten(vs) \o ps

\* mutant: the first ServiceException ends the teardown
DestroyIssued_AbortOnFailure(ids, failing) ==
    IF \E i \in DOMAIN ids : ids[i] \in failing
    THEN SubSeq(ids, 1, CHOOSE i \in DOMAIN ids :
                          /\ ids[i] \in failing
                          /\ \A j \in 1..(i - 1) : ids[j] \notin failing)
    ELSE ids

\* a ServiceException of one call is caught inside the loop
DestroyIssued(ids, failing) == ids

\* mutant: the collection is not reset after its loop
AfterDestroy_Keep(collection) == collection

AfterDestroy(collection) == <<>>

(***************************************************************************)
(* The services.                                                           *)
(***************************************************************************)
SpawnAnswers == {"ok"} \cup
                (IF faults < MaxFaults THEN {"rejected", "exception"} ELSE {})

LookupAnswers == {"ok"} \cup
                 (IF faults < MaxFaults THEN {"unknown", "exception"} ELSE {})

Answered(request, answer) ==
    request @@ [answer |-> answer,
                response_id |-> IF answer = "ok" THEN nextId ELSE Sentinel]

IsFault(answer) == answer # "ok"

(***************************************************************************)
(* Initial state: __init__ (lines 46-61) with the node's inputs.           *)
(***************************************************************************)
\* the state __init__ leaves, whatever the inputs
InitState ==
    /\ pc = "start"
    /\ spawn_result = "pending"
    /\ error = "none"
    /\ global_sensors = <<>>
    /\ vehicles_sensors = <<>>
    /\ players = <<>>
    /\ l_global_sensors = <<>>
    /\ l_vehicles = <<>>
    /\ l_players = <<>>
    /\ v_idx = 1
    /\ s_sensors = <<>>
    /\ s_attach = Unattached
    /\ s_idx = 1
    /\ s_actors = <<>>
    /\ s_names = <<>>
    /\ s_name = Unbound
    /\ s_start = 0
    /\ spawnLog = <<>>
    /\ lookupLog = <<>>
    /\ destroyLog = <<>>
    /\ destroyFailed = {}
    /\ nextId = 42     \* the backend's ids are its own; 42 as in scenario A
    /\ faults = 0

Init ==
    /\ objects \in SeqsUpTo(Catalogue, MaxObjects) \cup Scenarios
    /\ spawn_sensors_only \in BOOLEAN
    \* the parameters are read only for the entities of a normal-mode run
    /\ params \in IF \E i \in DOMAIN objects :
                       /\ ~spawn_sensors_only
                       /\ Head(objects[i].type) \in {"vehicle", "walker"}
                       /\ \E ps \in ParamSets : objects[i].id \in DOMAIN ps
                  THEN ParamSets
                  ELSE {NoParams}
    /\ InitState

\* the inputs of InputCases
InitInputs ==
    /\ \E case \in InputCases : objects = case[1] /\ params = case[2]
    /\ spawn_sensors_only \in BOOLEAN
    /\ InitState

ledger == <<global_sensors, vehicles_sensors, players>>
inputs == <<objects, spawn_sensors_only, params>>
batch == <<s_sensors, s_attach, s_idx, s_actors, s_names, s_name, s_start>>
destroyed == <<destroyLog, destroyFailed>>

\* mutant: the list of created ids starts with the actor attached to
InitialActors_WithParent(attached_vehicle_id) ==
    IF attached_vehicle_id = Unattached THEN <<>> ELSE <<attached_vehicle_id>>

\* line 199
InitialActors(attached_vehicle_id) == <<>>

\* entering setup_sensors(sensors, attached_vehicle_id)
EnterSetupSensors(sensors, attached_vehicle_id, start) ==
    /\ s_sensors' = sensors
    /\ s_attach' = attached_vehicle_id
    /\ s_idx' = 1
    /\ s_actors' = InitialActors(attached_vehicle_id)
    /\ s_names' = <<>>
    /\ s_name' = Unbound
    /\ s_start' = start

\* the frame of setup_sensors is gone
LeaveSetupSensors ==
    /\ s_sensors' = <<>>
    /\ s_attach' = Unattached
    /\ s_idx' = 1
    /\ s_actors' = <<>>
    /\ s_names' = <<>>
    /\ s_name' = Unbound
    /\ s_start' = 0

\* spawn_objects raises: its frames are gone, run() propagates to main()
Raise(what) ==
    /\ pc' = "raised"
    /\ spawn_result' = "raised"
    /\ error' = what
    /\ l_global_sensors' = <<>>
    /\ l_vehicles' = <<>>
    /\ l_players' = <<>>
    /\ v_idx' = 1

(***************************************************************************)
(* spawn_objects, lines 79-100: classify, validate, call setup_sensors.    *)
(***************************************************************************)
Classify ==
    /\ pc = "start"
    /\ LET gs == ClassifyGlobalSensors(objects, spawn_sensors_only)
           vs == ClassifyVehicles(objects, spawn_sensors_only)
           found == found_sensor_actor_list(objects, spawn_sensors_only)
       IN  IF ValidationFails(spawn_sensors_only, found)
           THEN /\ Raise("validation")
                /\ UNCHANGED batch
           ELSE /\ pc' = "global_sensors"
                /\ l_global_sensors' = gs
                /\ l_vehicles' = vs
                /\ EnterSetupSensors(gs, Unattached, Len(spawnLog))
                /\ UNCHANGED <<spawn_result, error, l_players, v_idx>>
    /\ UNCHANGED <<inputs, ledger, spawnLog, lookupLog, destroyed, nextId, faults>>

(***************************************************************************)
(* setup_sensors, one pass of the loop that ends before the service call.  *)
(***************************************************************************)
InSetupSensors == pc \in {"global_sensors", "vehicle_sensors"}

SensorSkipped ==
    /\ InSetupSensors
    /\ s_idx <= Len(s_sensors)
    /\ LET prep == PrepareSensor(s_sensors[s_idx], s_attach, s_names)
           name == IF prep.named THEN prep.name ELSE s_name
       IN  /\ prep.exc = "KeyError"
           /\ IF HandlerPropagates(prep.exc, name)
              THEN /\ Raise("UnboundLocalError")
                   /\ LeaveSetupSensors
              ELSE /\ s_idx' = s_idx + 1
                   /\ s_name' = name
                   /\ s_names' = IF prep.named THEN prep.names ELSE s_names
                   /\ UNCHANGED <<pc, spawn_result, error, l_global_sensors,
                                  l_vehicles, l_players, v_idx, s_sensors,
                                  s_attach, s_actors, s_start>>
    /\ UNCHANGED <<inputs, ledger, spawnLog, lookupLog, destroyed, nextId, faults>>

(***************************************************************************)
(* setup_sensors, one pass of the loop that calls spawn_object (247-261).  *)
(***************************************************************************)
SensorSpawn ==
    /\ InSetupSensors
    /\ s_idx <= Len(s_sensors)
    /\ LET prep == PrepareSensor(s_sensors[s_idx], s_attach, s_names)
       IN  /\ prep.exc = "none"
           /\ \E answer \in SpawnAnswers :
                /\ spawnLog' = Append(spawnLog, Answered(prep.request, answer))
                /\ faults' = IF IsFault(answer) THEN faults + 1 ELSE faults
                /\ IF answer = "ok"
                   THEN /\ s_actors' = Append(s_actors, nextId)
                        /\ nextId' = nextId + 1
                        /\ s_idx' = s_idx + 1
                        /\ s_name' = prep.name
                        /\ s_names' = prep.names
                        /\ UNCHANGED <<pc, spawn_result, error, l_global_sensors,
                                       l_vehicles, l_players, v_idx, s_sensors,
                                       s_attach, s_start>>
                   ELSE IF HandlerPropagates("Exception", prep.name)
                   THEN /\ Raise("sensor")
                        /\ LeaveSetupSensors
                        /\ UNCHANGED nextId
                   ELSE /\ s_idx' = s_idx + 1
                        /\ s_name' = prep.name
                        /\ s_names' = prep.names
                        /\ UNCHANGED <<pc, spawn_result, error, l_global_sensors,
                                       l_vehicles, l_players, v_idx, s_sensors,
                                       s_attach, s_actors, s_start, nextId>>
    /\ UNCHANGED <<inputs, ledger, lookupLog, destroyed>>

\* where spawn_objects goes once every vehicle has its carla_id
EnterSetupVehicles ==
    /\ pc' = "vehicles"
    /\ v_idx' = 1
    /\ l_players' = <<>>

(***************************************************************************)
(* setup_sensors returns to spawn_objects (line 100) or to setup_vehicles  *)
(* (lines 126, 183).                                                       *)
(***************************************************************************)
SetupSensorsReturn ==
    /\ InSetupSensors
    /\ s_idx > Len(s_sensors)
    /\ IF pc = "global_sensors"
       THEN /\ global_sensors' = s_actors
            /\ IF spawn_sensors_only /\ l_vehicles # <<>>
               THEN /\ pc' = "lookup"
                    /\ v_idx' = 1
                    /\ UNCHANGED l_players
               ELSE EnterSetupVehicles
            /\ UNCHANGED <<vehicles_sensors, players>>
       ELSE /\ vehicles_sensors' = Append(vehicles_sensors, s_actors)
            /\ v_idx' = v_idx + 1
            /\ pc' = "vehicles"
            /\ UNCHANGED <<global_sensors, players, l_players>>
    /\ LeaveSetupSensors
    /\ UNCHANGED <<inputs, spawn_result, error, l_global_sensors, l_vehicles,
                   spawnLog, lookupLog, destroyed, nextId, faults>>

(***************************************************************************)
(* spawn_objects, lines 104-106: one call of get_actor.                    *)
(***************************************************************************)
GetActor ==
    /\ pc = "lookup"
    /\ v_idx <= Len(l_vehicles)
    /\ \E answer \in LookupAnswers :
         LET vehicle == l_vehicles[v_idx]
             id == IF answer = "ok" THEN ExistingActor(vehicle.id) ELSE Sentinel
         IN  /\ lookupLog' = Append(lookupLog,
                     [role |-> vehicle.id, answer |-> answer, response_id |-> id])
             /\ faults' = IF IsFault(answer) THEN faults + 1 ELSE faults
             /\ IF answer = "exception"
                THEN Raise("get_actor")
                ELSE /\ l_vehicles' = [l_vehicles EXCEPT
                                          ![v_idx] = [carla_id |-> id] @@ vehicle]
                     /\ IF v_idx = Len(l_vehicles)
                        THEN EnterSetupVehicles
                        ELSE /\ v_idx' = v_idx + 1
                             /\ UNCHANGED <<pc, l_players>>
                     /\ UNCHANGED <<spawn_result, error, l_global_sensors>>
    /\ UNCHANGED <<inputs, ledger, batch, spawnLog, destroyed, nextId>>

(***************************************************************************)
(* setup_vehicles, sensors-only branch of the loop (lines 116-129).        *)
(***************************************************************************)
SensorsOfSpawnedVehicle ==
    /\ pc = "vehicles"
    /\ spawn_sensors_only
    /\ v_idx <= Len(l_vehicles)
    /\ LET vehicle == l_vehicles[v_idx]
       IN  IF "carla_id" \notin DOMAIN vehicle
           THEN \* break, then return players to spawn_objects
                /\ players' = l_players
                /\ pc' = "spin"
                /\ spawn_result' = "returned"
                /\ l_global_sensors' = <<>>
                /\ l_vehicles' = <<>>
                /\ l_players' = <<>>
                /\ v_idx' = 1
                /\ UNCHANGED <<error, batch>>
           ELSE IF "sensors" \notin DOMAIN vehicle
           THEN /\ Raise("sensors")
                /\ UNCHANGED <<players, batch>>
           ELSE /\ pc' = "vehicle_sensors"
                /\ EnterSetupSensors(vehicle.sensors, AttachedId(vehicle),
                                     Len(spawnLog))
                /\ UNCHANGED <<players, spawn_result, error, l_global_sensors,
                               l_vehicles, l_players, v_idx>>
    /\ UNCHANGED <<inputs, global_sensors, vehicles_sensors, spawnLog,
                   lookupLog, destroyed, nextId, faults>>

(***************************************************************************)
(* setup_vehicles, normal branch: one pass of the while loop of line 175   *)
(* with the request built by lines 131-172.                                *)
(***************************************************************************)
SpawnVehicle ==
    /\ pc = "vehicles"
    /\ ~spawn_sensors_only
    /\ v_idx <= Len(l_vehicles)
    /\ \E answer \in SpawnAnswers :
         LET vehicle == l_vehicles[v_idx]
             response == Answered(VehicleRequest(vehicle, params), answer)
         IN  /\ spawnLog' = Append(spawnLog, response)
             /\ faults' = IF IsFault(answer) THEN faults + 1 ELSE faults
             /\ nextId' = IF answer = "ok" THEN nextId + 1 ELSE nextId
             /\ IF answer = "exception"
                THEN /\ Raise("spawn_object")
                     /\ UNCHANGED batch
                ELSE IF PlayerSpawned(response.response_id)
                THEN /\ l_players' = Append(l_players, response.response_id)
                     /\ IF "sensors" \in DOMAIN vehicle
                        THEN /\ pc' = "vehicle_sensors"
                             /\ EnterSetupSensors(vehicle.sensors,
                                    response.response_id, Len(spawnLog'))
                             /\ UNCHANGED v_idx
                        ELSE \* KeyError caught at line 185
                             /\ v_idx' = v_idx + 1
                             /\ UNCHANGED <<pc, batch>>
                     /\ UNCHANGED <<spawn_result, error, l_global_sensors,
                                    l_vehicles>>
                ELSE UNCHANGED <<pc, spawn_result, error, l_global_sensors,
                                 l_vehicles, l_players, v_idx, batch>>
    /\ UNCHANGED <<inputs, ledger, lookupLog, destroyed>>

(***************************************************************************)
(* setup_vehicles returns (line 189), spawn_objects stores the players     *)
(* (line 109) and returns to run(), which spins.                           *)
(***************************************************************************)
SetupVehiclesReturn ==
    /\ pc = "vehicles"
    /\ v_idx > Len(l_vehicles)
    /\ players' = l_players
    /\ pc' = "spin"
    /\ spawn_result' = "returned"
    /\ l_global_sensors' = <<>>
    /\ l_vehicles' = <<>>
    /\ l_players' = <<>>
    /\ v_idx' = 1
    /\ UNCHANGED <<inputs, error, global_sensors, vehicles_sensors, batch,
                   spawnLog, lookupLog, destroyed, nextId, faults>>

(***************************************************************************)
(* destroy (lines 294-324), called by the shutdown hook of run() and by    *)
(* the finally block of main().                                            *)
(***************************************************************************)
Destroy ==
    /\ pc \in {"spin", "raised", "destroyed"}
    /\ LET ids == DestroyOrder(global_sensors, vehicles_sensors, players)
       IN  \E failing \in SUBSET RangeOf(ids) :
             /\ Cardinality(failing) <= MaxFaults - faults
             /\ destroyLog' = Append(destroyLog, DestroyIssued(ids, failing))
             /\ destroyFailed' = destroyFailed \cup failing
             /\ faults' = faults + Cardinality(failing)
    /\ global_sensors' = AfterDestroy(global_sensors)
    /\ vehicles_sensors' = AfterDestroy(vehicles_sensors)
    /\ players' = AfterDestroy(players)
    /\ pc' = IF pc = "destroyed" THEN "exited" ELSE "destroyed"
    /\ UNCHANGED <<inputs, spawn_result, error, l_global_sensors, l_vehicles,
                   l_players, v_idx, batch, spawnLog, lookupLog, nextId>>

Next ==
    \/ Classify
    \/ SensorSkipped
    \/ SensorSpawn
    \/ SetupSensorsReturn
    \/ GetActor
    \/ SensorsOfSpawnedVehicle
    \/ SpawnVehicle
    \/ SetupVehiclesReturn
    \/ Destroy

Spec == Init /\ [][Next]_vars

SpecInputs == InitInputs /\ [][Next]_vars

(***************************************************************************)
(* Vocabulary of the properties.                                           *)
(***************************************************************************)
IsEntityRequest(r) == Head(r.type) \in {"vehicle", "walker"}
IsSensorRequest(r) == ~IsEntityRequest(r)

OkIndexes == {i \in DOMAIN spawnLog : spawnLog[i].answer = "ok"}
ReturnedIds == {spawnLog[i].response_id : i \in OkIndexes}

DestroySeq == Flatten(destroyLog)
DestroyedIds == RangeOf(DestroySeq)

LedgerIds == RangeOf(global_sensors) \cup RangeOf(Flatten(vehicles_sensors))
                 \cup RangeOf(players)

SpawnIndex(id) == CHOOSE i \in OkIndexes : spawnLog[i].response_id = id

\* 1 global sensor, 2 sensor of a vehicle, 3 player
Rank(id) == LET r == spawnLog[SpawnIndex(id)]
            IN  IF IsEntityRequest(r) THEN 3
                ELSE IF r.attach_to = Unattached THEN 1 ELSE 2

\* the ids the backend returned for entity requests, in the order returned
EntityIds == LET ix == SelectSeq([i \in DOMAIN spawnLog |-> i],
                           LAMBDA i : /\ IsEntityRequest(spawnLog[i])
                                      /\ spawnLog[i].answer = "ok")
             IN  [k \in DOMAIN ix |-> spawnLog[ix[k]].response_id]

SameRequest(a, b) ==
    /\ a.type = b.type /\ a.id = b.id /\ a.attach_to = b.attach_to
    /\ a.transform = b.transform /\ a.random_pose = b.random_pose
    /\ a.attributes = b.attributes

Finished == pc \in {"destroyed", "exited"}

(***************************************************************************)
(* C1: when spawn_objects raises after some spawn requests succeeded, the  *)
(* destroy() that follows sends a destroy request for every id the backend *)
(* returned before the failure.                                            *)
(***************************************************************************)
C1_NoLeakAfterFailedStartup ==
    (spawn_result = "raised" /\ Finished) => ReturnedIds \subseteq DestroyedIds

(***************************************************************************)
(* C2: destroy() sends its requests in the order global sensors, sensors   *)
(* of the vehicles (in spawn order), players (in spawn order), and leaves  *)
(* the three collections empty.                                            *)
(***************************************************************************)
C2_DestroyOrder ==
    /\ \A i, j \in DOMAIN DestroySeq :
         i < j =>
           \/ Rank(DestroySeq[i]) < Rank(DestroySeq[j])
           \/ /\ Rank(DestroySeq[i]) = Rank(DestroySeq[j])
              /\ SpawnIndex(DestroySeq[i]) < SpawnIndex(DestroySeq[j])
    /\ Finished =>
         global_sensors = <<>> /\ vehicles_sensors = <<>> /\ players = <<>>

\* a destroy() that had a global sensor, the sensors of two vehicles and
\* two players to destroy
C2_Witness ==
    /\ pc = "destroyed"
    /\ \E g, s1, s2, p1, p2 \in RangeOf(destroyLog[1]) :
         /\ Rank(g) = 1 /\ Rank(s1) = 2 /\ Rank(s2) = 2
         /\ Rank(p1) = 3 /\ Rank(p2) = 3 /\ p1 # p2
         /\ spawnLog[SpawnIndex(s1)].attach_to = p1
         /\ spawnLog[SpawnIndex(s2)].attach_to = p2

(***************************************************************************)
(* C3: in normal mode a rejected (-1) entity spawn is followed by the same *)
(* request again, however many rejections came before; nothing else is     *)
(* requested until the backend returns an id, and that id is recorded      *)
(* exactly once as a player.                                               *)
(***************************************************************************)
C3_UnboundedRetry ==
    /\ \A i \in DOMAIN spawnLog :
         (IsEntityRequest(spawnLog[i]) /\ spawnLog[i].answer = "rejected") =>
           IF i < Len(spawnLog)
           THEN SameRequest(spawnLog[i + 1], spawnLog[i])
           ELSE /\ pc = "vehicles"
                /\ spawn_result = "pending"
                /\ v_idx <= Len(l_vehicles)
                /\ SameRequest(VehicleRequest(l_vehicles[v_idx], params),
                               spawnLog[i])
    /\ Sentinel \notin RangeOf(l_players) \cup RangeOf(players)
    /\ pc \in {"vehicles", "vehicle_sensors"} => l_players = EntityIds
    /\ pc = "spin" => players = EntityIds

\* MaxFaults rejections of the first entity, then its id, then the next entity
C3_Witness ==
    /\ Len(spawnLog) > MaxFaults + 1
    /\ \A i \in 1..MaxFaults :
         IsEntityRequest(spawnLog[i]) /\ spawnLog[i].answer = "rejected"
    /\ spawnLog[MaxFaults + 1].answer = "ok"
    /\ SameRequest(spawnLog[MaxFaults + 1], spawnLog[1])
    /\ Len(l_players) = 2

(***************************************************************************)
(* C4: in normal mode, if no entity spawn request ends in a service        *)
(* failure, then once spawn_objects() has terminated players holds one id  *)
(* per vehicle/walker entry of the definition file, in file order.         *)
(***************************************************************************)
NumEntities == Len(ClassifyVehicles(objects, spawn_sensors_only))

C4_PlayersPerEntity ==
    ( /\ ~spawn_sensors_only
      /\ pc \in {"spin", "raised"}
      /\ \A i \in DOMAIN spawnLog :
           IsEntityRequest(spawnLog[i]) => spawnLog[i].answer # "exception" )
    => (players = EntityIds /\ Len(players) = NumEntities)

(***************************************************************************)
(* C5: in sensors-only mode without a sensor.pseudo.actor_list entry,      *)
(* spawn_objects() raises before any spawn request or role lookup.         *)
(***************************************************************************)
HasActorList == \E i \in DOMAIN objects : objects[i].type = ActorListType

C5_ValidationBeforeAnyCall ==
    (spawn_sensors_only /\ ~HasActorList) =>
        /\ spawnLog = <<>>
        /\ lookupLog = <<>>
        /\ pc # "start" => (spawn_result = "raised" /\ error = "validation")

\* such a file with a sensor and a vehicle to spawn, after the failure
C5_Witness ==
    /\ spawn_sensors_only /\ ~HasActorList
    /\ \E i, j \in DOMAIN objects :
         Head(objects[i].type) = "sensor" /\ Head(objects[j].type) = "vehicle"
    /\ pc = "raised"

(***************************************************************************)
(* C6: no id is sent to destroy_object twice, and the destroy() that       *)
(* directly follows another one sends nothing.                             *)
(***************************************************************************)
C6_DestroyOnce ==
    /\ \A i, j \in DOMAIN DestroySeq : i # j => DestroySeq[i] # DestroySeq[j]
    /\ Len(destroyLog) >= 2 => destroyLog[2] = <<>>
    /\ Finished => LedgerIds = {}

\* the hook and the finally block both ran, the first had ids to destroy
C6_Witness ==
    /\ pc = "exited"
    /\ Len(destroyLog) = 2
    /\ Len(destroyLog[1]) >= 3

(***************************************************************************)
(* C7: whichever destroy_object calls fail, one destroy() sends a request  *)
(* for every recorded id, returns, and leaves the collections empty.       *)
(***************************************************************************)
C7_TeardownTotal ==
    [][ Len(destroyLog') = Len(destroyLog) + 1 =>
          /\ LedgerIds \subseteq RangeOf(destroyLog'[Len(destroyLog')])
          /\ Len(destroyLog'[Len(destroyLog')]) = Cardinality(LedgerIds)
          /\ global_sensors' = <<>>
          /\ vehicles_sensors' = <<>>
          /\ players' = <<>>
          /\ pc' \in {"destroyed", "exited"} ]_vars

\* a destroy() whose first call failed and that had three kinds of ids
C7_Witness ==
    /\ pc = "destroyed"
    /\ Len(destroyLog[1]) >= 3
    /\ destroyLog[1][1] \in destroyFailed
    /\ \E i, j \in DOMAIN destroyLog[1] :
         /\ Rank(destroyLog[1][i]) = 2 /\ Rank(destroyLog[1][j]) = 3
         /\ destroyLog[1][i] \notin destroyFailed

(***************************************************************************)
(* C8: no failure of a single sensor makes setup_sensors raise, and the    *)
(* ids it has collected are those of the sensors of this batch that        *)
(* spawned, in order.                                                      *)
(***************************************************************************)
BatchIds == LET ix == SelectSeq([i \in DOMAIN spawnLog |-> i],
                          LAMBDA i : i > s_start /\ spawnLog[i].answer = "ok")
            IN  [k \in DOMAIN ix |-> spawnLog[ix[k]].response_id]

C8_SensorFailuresNeverAbort ==
    /\ error # "UnboundLocalError"
    /\ InSetupSensors => s_actors = BatchIds

(***************************************************************************)
(* C9: in sensors-only mode no spawn request is attached to an unknown id, *)
(* and every entity whose id is known gets its sensors requested.          *)
(***************************************************************************)
C9_UnknownIdSkipsOnlyThatEntity ==
    spawn_sensors_only =>
        /\ \A i \in DOMAIN spawnLog : spawnLog[i].attach_to # Sentinel
        /\ spawn_result = "returned" =>
             \A k \in DOMAIN lookupLog :
                LET vehicle == ClassifyVehicles(objects, TRUE)[k]
                IN  ( /\ lookupLog[k].answer = "ok"
                      /\ "sensors" \in DOMAIN vehicle
                      /\ vehicle.sensors # <<>>
                      /\ PrepareSensor(vehicle.sensors[1],
                                       lookupLog[k].response_id, <<>>).exc = "none" )
                    => \E i \in DOMAIN spawnLog :
                          spawnLog[i].attach_to = lookupLog[k].response_id

(***************************************************************************)
(* C10 as stated: a rejected sensor of a vehicle/walker ends that entity's *)
(* sensor provisioning and makes spawn_objects() fail.                     *)
(***************************************************************************)
IsRejectedSensor(r) == IsSensorRequest(r) /\ r.answer = "rejected"

C10_AttachedRejectionEscalates ==
    \A i \in DOMAIN spawnLog :
       (IsRejectedSensor(spawnLog[i]) /\ spawnLog[i].attach_to # Unattached) =>
          /\ spawn_result # "returned"
          /\ \A j \in DOMAIN spawnLog :
                j > i => spawnLog[j].attach_to # spawnLog[i].attach_to

(***************************************************************************)
(* C10 amended: a rejected sensor, attached or global, is only skipped:    *)
(* the step that gets the rejection goes on to the next sensor of the same *)
(* batch, records nothing and does not make spawn_objects() fail.          *)
(***************************************************************************)
C10_RejectionSkipsOnlyThatSensor ==
    [][ ( /\ Len(spawnLog') = Len(spawnLog) + 1
          /\ IsRejectedSensor(spawnLog'[Len(spawnLog')]) ) =>
            /\ pc' = pc
            /\ spawn_result' = "pending"
            /\ error' = "none"
            /\ s_sensors' = s_sensors
            /\ s_attach' = s_attach
            /\ s_idx' = s_idx + 1
            /\ s_actors' = s_actors
            /\ Sentinel \notin RangeOf(s_actors')
            /\ <<l_players, v_idx, ledger>>' = <<l_players, v_idx, ledger>> ]_vars

\* the first sensor of a spawned vehicle was rejected, the next one spawned
\* and spawn_objects() returned
C10_Witness ==
    /\ spawn_result = "returned"
    /\ \E i \in DOMAIN spawnLog :
         /\ i < Len(spawnLog)
         /\ IsRejectedSensor(spawnLog[i])
         /\ spawnLog[i].attach_to \in RangeOf(players)
         /\ IsSensorRequest(spawnLog[i + 1])
         /\ spawnLog[i + 1].answer = "ok"
         /\ spawnLog[i + 1].attach_to = spawnLog[i].attach_to

(***************************************************************************)
(* Vocabulary of the spawn point properties.  The poses are written out:   *)
(* the inputs only turn by yaw 0 (identity quaternion) or yaw 180.         *)
(***************************************************************************)
Entities == SelectSeq(objects, LAMBDA a : Head(a.type) \in {"vehicle", "walker"})

\* the entry of the file that the i-th spawn request, an entity request, is for
EntityAt(i) ==
    Entities[1 + Cardinality({j \in 1..(i - 1) :
                                 /\ IsEntityRequest(spawnLog[j])
                                 /\ spawnLog[j].answer = "ok"})]

EntityRequests == {i \in DOMAIN spawnLog : IsEntityRequest(spawnLog[i])}

PoseAt(x, y, z, yaw) ==
    [x |-> x, y |-> y, z |-> z, qx |-> 0, qy |-> 0,
     qz |-> IF yaw = 180 THEN 1 ELSE 0, qw |-> IF yaw = 180 THEN 0 ELSE 1]

\* the pose of the override of an entity: "1,2,3,0,0,180" and "3,2,1,0,0,0"
\* are the overrides of six numbers
OverridePoses(vehicle) ==
    IF vehicle.id \notin DOMAIN params THEN {}
    ELSE IF params[vehicle.id] = ParamValid THEN {PoseAt(1, 2, 3, 180)}
    ELSE IF params[vehicle.id] = ParamOther THEN {PoseAt(3, 2, 1, 0)}
    ELSE {}

HasKeys(vehicle, keys) ==
    "spawn_point" \in DOMAIN vehicle /\ keys \subseteq DOMAIN vehicle.spawn_point

\* the pose of the file's spawn point, absent angles read as 0
ConfigPose(vehicle) ==
    PoseAt(vehicle.spawn_point.x, vehicle.spawn_point.y, vehicle.spawn_point.z,
           IF "yaw" \in DOMAIN vehicle.spawn_point
           THEN vehicle.spawn_point.yaw ELSE 0)

AllSix == {"x", "y", "z", "roll", "pitch", "yaw"}

(***************************************************************************)
(* C11: an override of six numbers is used even when the file has a spawn  *)
(* point; a missing or malformed override falls back to the spawn point of *)
(* the file and the request is still sent; random_pose is true exactly     *)
(* when neither gives a pose.                                              *)
(***************************************************************************)
C11_Precedence ==
    \A i \in EntityRequests :
       LET r == spawnLog[i]
           vehicle == EntityAt(i)
       IN  /\ r.type = vehicle.type /\ r.id = vehicle.id
           /\ OverridePoses(vehicle) # {} =>
                 ~r.random_pose /\ r.transform \in OverridePoses(vehicle)
           /\ (OverridePoses(vehicle) = {} /\ HasKeys(vehicle, AllSix)) =>
                 ~r.random_pose /\ r.transform = ConfigPose(vehicle)
           /\ (OverridePoses(vehicle) = {} /\ ~HasKeys(vehicle, {"x", "y", "z"})) =>
                 r.random_pose
           /\ r.random_pose =>
                 OverridePoses(vehicle) = {} /\ ~HasKeys(vehicle, AllSix)

\* an override of six numbers beat the file's spawn point, a malformed one
\* (here the second entity has none) fell back to the file
C11_Witness ==
    /\ Len(spawnLog) >= 2
    /\ Len(Entities) >= 2
    /\ params = [k \in {"ego_vehicle"} |-> ParamOther]
    /\ HasKeys(Entities[1], AllSix)
    /\ spawnLog[1].answer = "ok"
    /\ spawnLog[1].transform = PoseAt(3, 2, 1, 0)
    /\ spawnLog[1].transform # ConfigPose(Entities[1])
    /\ spawnLog[2].id = "hero"
    /\ spawnLog[2].transform = PoseAt(1, 2, 3, 180)

(***************************************************************************)
(* C12 as stated: without a usable override, a spawn point of the file     *)
(* with x, y and z gives the pose at (x, y, z), absent roll, pitch and yaw *)
(* read as 0.0; only a missing x, y or z gives random placement.           *)
(***************************************************************************)
C12_AnglesDefaultToZero ==
    \A i \in EntityRequests :
       LET r == spawnLog[i]
           vehicle == EntityAt(i)
       IN  OverridePoses(vehicle) = {} =>
             IF HasKeys(vehicle, {"x", "y", "z"})
             THEN ~r.random_pose /\ r.transform = ConfigPose(vehicle)
             ELSE r.random_pose

(***************************************************************************)
(* C12 amended: without a usable override, the spawn point of the file     *)
(* gives the pose only when it has all six of x, y, z, roll, pitch, yaw;   *)
(* any missing one, an angle included, gives random placement with the     *)
(* empty pose.                                                             *)
(***************************************************************************)
C12_AllSixMandatory ==
    \A i \in EntityRequests :
       LET r == spawnLog[i]
           vehicle == EntityAt(i)
       IN  OverridePoses(vehicle) = {} =>
             IF HasKeys(vehicle, AllSix)
             THEN ~r.random_pose /\ r.transform = ConfigPose(vehicle)
             ELSE r.random_pose /\ r.transform = EmptyPose

\* an entity whose spawn point has x, y, z but no angles was requested at random
C12_Witness ==
    /\ spawnLog # <<>>
    /\ Entities # <<>>
    /\ Entities[1] = V_at(SpXyz)
    /\ OverridePoses(Entities[1]) = {}
    /\ "ego_vehicle" \in DOMAIN params
    /\ spawnLog[1].random_pose
    /\ spawnLog[1].answer = "ok"

(***************************************************************************)
(* C13: inside one setup_sensors call no name type/id is requested twice   *)
(* (the repeated sensor is skipped without a request) and the ids of the   *)
(* sensors accepted before and after it are collected; another call may    *)
(* use the name again.                                                     *)
(***************************************************************************)
BatchRequests == {i \in DOMAIN spawnLog : i > s_start}

C13_NamesUniquePerCall ==
    InSetupSensors =>
        /\ \A i, j \in BatchRequests :
              i # j => <<spawnLog[i].type, spawnLog[i].id>>
                           # <<spawnLog[j].type, spawnLog[j].id>>
        /\ \A i \in BatchRequests : spawnLog[i].attach_to = s_attach
        /\ s_actors = BatchIds
        /\ Cardinality(BatchRequests) <= s_idx - 1

\* the batch <<front, front, lidar>> of one vehicle is over with two ids,
\* after a batch of another owner that had used the name front as well
C13_Witness ==
    /\ pc = "vehicle_sensors"
    /\ s_sensors = <<S_cam, S_cam, S_lidar>>
    /\ s_idx = 4
    /\ Len(s_actors) = 2
    /\ Cardinality(BatchRequests) = 2
    /\ \E i \in DOMAIN spawnLog :
          /\ i <= s_start
          /\ spawnLog[i].type = S_cam.type /\ spawnLog[i].id = S_cam.id
          /\ spawnLog[i].answer = "ok"
          /\ spawnLog[i].attach_to # s_attach

(***************************************************************************)
(* C14: in sensors-only mode every spawn request is for a sensor, never    *)
(* for a vehicle/walker entry, and the sensors of an entity are requested  *)
(* with attach_to equal to the id its role lookup gave.                    *)
(***************************************************************************)
C14_SensorsOnlySpawnsNoEntity ==
    spawn_sensors_only =>
        /\ \A i \in DOMAIN spawnLog :
              /\ Head(spawnLog[i].type) = "sensor"
              /\ \/ spawnLog[i].attach_to = Unattached
                 \/ \E k \in DOMAIN lookupLog :
                       /\ lookupLog[k].answer # "exception"
                       /\ lookupLog[k].response_id = spawnLog[i].attach_to
        /\ pc = "vehicle_sensors" =>
              /\ lookupLog[v_idx].role = l_vehicles[v_idx].id
              /\ s_attach = lookupLog[v_idx].response_id
              /\ \A i \in BatchRequests : spawnLog[i].attach_to = s_attach

\* scenario C: the actor list sensor, then a sensor attached to the
\* existing vehicle 7
C14_Witness ==
    /\ spawn_sensors_only
    /\ spawn_result = "returned"
    /\ \E k \in DOMAIN lookupLog :
          lookupLog[k].answer = "ok" /\ lookupLog[k].response_id = 7
    /\ \E i, j \in DOMAIN spawnLog :
          /\ spawnLog[i].type = ActorListType /\ spawnLog[i].answer = "ok"
          /\ spawnLog[j].attach_to = 7 /\ spawnLog[j].answer = "ok"
    /\ Entities # <<>>

(***************************************************************************)
(* C15: an unattached sensor that is not a pseudo sensor is requested only *)
(* with the pose of its spawn point, and skipped when it has none, which   *)
(* does not stop spawn_objects(); an attached or pseudo sensor without a   *)
(* spawn point is requested with the zero pose; no sensor request asks for *)
(* a random pose.                                                          *)
(***************************************************************************)
ZeroPose == PoseAt(0, 0, 0, 0)

\* the sensor entries of the file a request can stem from
TopLevelSensors == {objects[k] : k \in {n \in DOMAIN objects :
                                           Head(objects[n].type) = "sensor"}}
NestedSensors ==
    UNION {RangeOf(Entities[k].sensors) :
              k \in {n \in DOMAIN Entities : "sensors" \in DOMAIN Entities[n]}}

SensorSources(r) ==
    {sp \in (IF r.attach_to = Unattached THEN TopLevelSensors ELSE NestedSensors) :
        /\ {"type", "id"} \subseteq DOMAIN sp
        /\ sp.type = r.type /\ sp.id = r.id}

C15_SensorPlacement ==
    /\ \A i \in DOMAIN spawnLog :
          LET r == spawnLog[i]
          IN  IsSensorRequest(r) =>
                /\ ~r.random_pose
                /\ \E sp \in SensorSources(r) :
                      IF "spawn_point" \in DOMAIN sp
                      THEN /\ (r.attach_to = Unattached /\ ~HasPseudo(r.type))
                                  => {"x", "y", "z"} \subseteq DOMAIN sp.spawn_point
                           /\ r.transform =
                                 PoseAt(Get(sp.spawn_point, "x", 0),
                                        Get(sp.spawn_point, "y", 0),
                                        Get(sp.spawn_point, "z", 0),
                                        Get(sp.spawn_point, "yaw", 0))
                      ELSE /\ r.transform = ZeroPose
                           /\ r.attach_to # Unattached \/ HasPseudo(r.type)
    \* scenario B
    /\ (objects = <<G_nosp>> /\ ~spawn_sensors_only
           /\ pc \notin {"start", "global_sensors"}) =>
          /\ spawnLog = <<>>
          /\ error = "none"
          /\ pc # "raised"
          /\ pc \in {"spin", "destroyed", "exited"} => spawn_result = "returned"
          /\ global_sensors = <<>>

\* scenario B has returned with nothing requested and nothing recorded
C15_Witness ==
    /\ objects = <<G_nosp>> /\ ~spawn_sensors_only
    /\ pc = "spin" /\ spawn_result = "returned"
    /\ spawnLog = <<>> /\ global_sensors = <<>>

\* the pseudo sensor and an attached sensor without spawn point were
\* requested with the zero pose
C15_ZeroPoseReached ==
    /\ Len(spawnLog) >= 2
    /\ spawnLog[1].type = ActorListType /\ spawnLog[1].transform = ZeroPose
    /\ spawnLog[2].attach_to # Unattached
    /\ spawnLog[2].transform = ZeroPose
    /\ \E sp \in SensorSources(spawnLog[2]) : "spawn_point" \notin DOMAIN sp

(***************************************************************************)
(* C16: every entry of the file is in exactly one of the global sensors,   *)
(* the entities and the ignored entries, by the first field of its type    *)
(* alone: "sensor" (the actor list sensor included, in both modes) is a    *)
(* global sensor, "vehicle" or "walker" an entity, anything else is        *)
(* ignored and never requested while the run goes on; the actor list flag  *)
(* is set in sensors-only mode only.                                       *)
(***************************************************************************)
SensorEntries == SelectSeq(objects, LAMBDA a : Head(a.type) = "sensor")
IgnoredEntries ==
    SelectSeq(objects, LAMBDA a : Head(a.type) \notin {"sensor", "vehicle", "walker"})
\* an entry without the id that the role lookup of line 106 stores in it
AsInFile(vehicle) == [k \in DOMAIN vehicle \ {"carla_id"} |-> vehicle[k]]
\* spawn_objects is past its classification loop
Classified == pc \in {"global_sensors", "lookup", "vehicles", "vehicle_sensors"}

C16_ClassificationPartition ==
    /\ found_sensor_actor_list(objects, spawn_sensors_only)
          = (spawn_sensors_only /\ HasActorList)
    /\ (pc # "start" /\ spawn_sensors_only /\ ~HasActorList) => error = "validation"
    /\ Classified =>
          /\ l_global_sensors = SensorEntries
          /\ [k \in DOMAIN l_vehicles |-> AsInFile(l_vehicles[k])] = Entities
          /\ Len(l_global_sensors) + Len(l_vehicles) + Len(IgnoredEntries)
                = Len(objects)
    /\ \A i \in DOMAIN spawnLog :
          \A k \in DOMAIN IgnoredEntries :
             spawnLog[i].type # IgnoredEntries[k].type

\* a prop is ignored next to the actor list sensor, which is requested as a
\* global sensor in normal mode, and spawn_objects goes on to the entities
C16_Witness ==
    /\ objects = <<O_prop, G_actor_list>>
    /\ ~spawn_sensors_only
    /\ pc = "vehicles"
    /\ l_global_sensors = <<G_actor_list>>
    /\ l_vehicles = <<>>
    /\ Len(spawnLog) = 1 /\ spawnLog[1].type = ActorListType
    /\ Len(global_sensors) = 1

(***************************************************************************)
(* C17: the spawn requests are made one after the other in a fixed order:  *)
(* every request for a global sensor comes before the first request for an *)
(* entity; the entities are requested in the order of the file; the        *)
(* requests for the sensors of an entity follow its successful spawn and   *)
(* come before the first request for the next entity; every request has    *)
(* its answer before the next one is made.                                 *)
(***************************************************************************)
IsGlobalRequest(r) == IsSensorRequest(r) /\ r.attach_to = Unattached

C17_RequestOrder ==
    /\ \A i \in DOMAIN spawnLog :
          spawnLog[i].answer \in {"ok", "rejected", "exception"}
    /\ \A i, j \in DOMAIN spawnLog :
          (i < j /\ ~IsGlobalRequest(spawnLog[i])) => ~IsGlobalRequest(spawnLog[j])
    /\ ~spawn_sensors_only =>
          \A j \in DOMAIN spawnLog :
             LET r == spawnLog[j]
             IN  /\ IsEntityRequest(r) =>
                       /\ r.type = EntityAt(j).type
                       /\ r.id = EntityAt(j).id
                 /\ (IsSensorRequest(r) /\ ~IsGlobalRequest(r)) =>
                       \E i \in 1..(j - 1) :
                          /\ IsEntityRequest(spawnLog[i])
                          /\ spawnLog[i].answer = "ok"
                          /\ spawnLog[i].response_id = r.attach_to
                          /\ \A k \in (i + 1)..(j - 1) :
                                /\ IsSensorRequest(spawnLog[k])
                                /\ spawnLog[k].attach_to = r.attach_to

\* a global sensor, then two entities each followed by its sensors, the
\* first entity accepted at its second request
C17_Witness ==
    /\ objects = <<G_cam, V_sensors, V_dup>>
    /\ ~spawn_sensors_only
    /\ pc = "spin"
    /\ Len(players) = 2
    /\ Len(spawnLog) = 7
    /\ IsGlobalRequest(spawnLog[1])
    /\ IsEntityRequest(spawnLog[2]) /\ spawnLog[2].answer = "rejected"
    /\ IsEntityRequest(spawnLog[3]) /\ spawnLog[3].answer = "ok"
    /\ spawnLog[5].attach_to = players[1]
    /\ IsEntityRequest(spawnLog[6]) /\ spawnLog[6].id = "hero"
    /\ spawnLog[7].attach_to = players[2]

(***************************************************************************)
(* C18: between the calls of spawn_objects() and destroy(), every id a     *)
(* successful spawn request returned is in exactly one of global_sensors,  *)
(* vehicles_sensors and players.                                           *)
(***************************************************************************)
LedgerSeq == global_sensors \o Flatten(vehicles_sensors) \o players

C18_LedgerOnlyGrows ==
    [][pc' # "destroyed" =>
          /\ Len(global_sensors) <= Len(global_sensors')
          /\ SubSeq(global_sensors', 1, Len(global_sensors)) = global_sensors
          /\ Len(vehicles_sensors) <= Len(vehicles_sensors')
          /\ SubSeq(vehicles_sensors', 1, Len(vehicles_sensors)) = vehicles_sensors
          /\ Len(players) <= Len(players')
          /\ SubSeq(players', 1, Len(players)) = players]_vars

C18_RecordedOnce ==
    /\ Cardinality(LedgerIds) = Len(LedgerSeq)
    /\ LedgerIds \subseteq ReturnedIds

C18_EveryReturnedIdRecorded ==
    /\ C18_RecordedOnce
    /\ pc \in {"spin", "raised"} => ReturnedIds \subseteq LedgerIds

(***************************************************************************)
(* C19: in sensors-only mode players stays empty, and destroy() sends      *)
(* destroy requests only for ids that the node's own sensor spawn requests *)
(* returned, never for the id of an existing vehicle or walker that a role *)
(* lookup gave.                                                            *)
(***************************************************************************)
LookedUpIds == {lookupLog[k].response_id : k \in DOMAIN lookupLog}

C19_SensorsOnlyDestroysOwnSensors ==
    spawn_sensors_only =>
        /\ players = <<>>
        /\ l_players = <<>>
        /\ \A id \in DestroyedIds \cup LedgerIds :
              \E i \in OkIndexes :
                 /\ spawnLog[i].response_id = id
                 /\ IsSensorRequest(spawnLog[i])
        /\ LookedUpIds \cap (DestroyedIds \cup LedgerIds) = {}

\* scenario C torn down: the sensor spawned on the existing vehicle 7 was
\* destroyed
C19_Witness ==
    /\ spawn_sensors_only
    /\ Finished
    /\ 7 \in LookedUpIds
    /\ \E i \in OkIndexes :
          /\ spawnLog[i].attach_to = 7
          /\ spawnLog[i].response_id \in DestroyedIds
    /\ 7 \notin DestroyedIds

====
